---- MODULE Spec2Model ----
(***************************************************************************)
(* Streaming pipeline of src/bin/stream/main.rs: the capture thread        *)
(* (main.rs:56-67) that records chunks with record_audio (main.rs:162-191) *)
(* and appends them to audio_ring_buffer, and the transcription loop of    *)
(* the main thread (main.rs:71-88) that snapshots the buffer every tick.   *)
(***************************************************************************)
EXTENDS Integers, Sequences, FiniteSets, TLC

(***************************************************************************)
(* Bounds of the model.                                                    *)
(***************************************************************************)
\* raw samples the device delivers during one capture session, at most
MaxRaw == 4
\* samples in one callback block, at most
MaxBlock == 2
\* samples surviving decimation that the device delivers in a whole run
MaxTotal == 18
\* ticks of the transcription loop
MaxTicks == 2
\* stream errors the device reports in a whole run
MaxStreamErrs == 1
\* channels of the input configuration
MaxChannels == 2
\* the scenario of equal chunks: samples in one chunk, and chunks captured
ScenarioChunk == 100
ScenarioAppends == 17
\* raw samples of any value delivered during one capture session, at most
MaxConvertRaw == 2
\* numbered samples delivered in a whole run of the fair specification
MaxLiveTotal == 2

(***************************************************************************)
(* Program constants.                                                      *)
(***************************************************************************)
\* main.rs:59  let max_len = data.len() * 16;
Multiplier == 16
\* main.rs:187 let step = 3;
step == 3
\* main.rs:174 and main.rs:76: the scale between f32 and i16 samples
Scale == 32768
\* range of i16
I16Min == -32768
I16Max == 32767

(***************************************************************************)
(* Samples.  An f32 sample v of the device is represented by the integer   *)
(* h with v = h / (2 * Scale), so that v * 32768.0 = h / 2 is exact.       *)
(***************************************************************************)
\* AsI16 rounding down instead of toward zero
AsI16_floor(h) ==
    LET t == h \div 2
    IN  IF t > I16Max THEN I16Max ELSE IF t < I16Min THEN I16Min ELSE t

\* Rust's `as i16` on a float: truncate toward zero, saturate at the range
AsI16(h) ==
    LET t == IF h >= 0 THEN h \div 2 ELSE -((-h) \div 2)
    IN  IF t > I16Max THEN I16Max ELSE IF t < I16Min THEN I16Min ELSE t

\* main.rs:172-175  data.iter().map(|v| (v * 32768.0) as i16).collect()
processed(block) == [i \in 1..Len(block) |-> AsI16(block[i])]

\* StepBy keeping whole strides only
StepBy_whole(s, n) == [i \in 1..(Len(s) \div n) |-> s[(i - 1) * n + 1]]

\* main.rs:188  data.iter().step_by(step).copied().collect()
StepBy(s, n) == [i \in 1..((Len(s) + n - 1) \div n) |-> s[(i - 1) * n + 1]]

\* main.rs:76  *v as f32 / 32768.   (an exact fraction num/den)
Normalize(v) == [num |-> v, den |-> Scale]

\* Reduce taking the first sample of every frame of cc samples
Reduce_frames(d, cc) ==
    [i \in 1..(Len(d) \div cc) |-> Normalize(d[(i - 1) * cc + 1])]

\* main.rs:74-77  data[..data.len() / channel_count].iter().map(..).collect()
Reduce(d, cc) == [i \in 1..(Len(d) \div cc) |-> Normalize(d[i])]

\* main.rs:64  data[data_len..].to_vec()
SliceFrom(s, n) == SubSeq(s, n + 1, Len(s))

(***************************************************************************)
(* The sample source.  The samples that survive the decimation carry the   *)
(* consecutive numbers 1, 2, 3, ... (as h = 2 * number), the samples that  *)
(* the decimation drops carry the value 1/65536, which converts to 0: the  *)
(* order, a gap or a duplicate in the buffer is then visible in its values.*)
(***************************************************************************)
\* number of positions p in from..to (0-based) with p % step = 0
Kept(from, to) == Cardinality({p \in from..to : p % step = 0})

\* the block of b samples the device delivers at 0-based position pos of the
\* session, when `done` numbered samples have been delivered before
DeviceBlock(pos, b, done) ==
    [i \in 1..b |-> IF (pos + i - 1) % step = 0
                    THEN 2 * (done + Kept(pos, pos + i - 1))
                    ELSE 1]

\* The behaviour of a sample source: the sizes of its callback blocks, the
\* least and the greatest number of raw samples it delivers during the sleep
\* of one session, the numbered samples it delivers and the stream errors
\* it reports in a whole run, and the values of its samples (none: numbered).
MixedSource ==
    [blocks |-> 1..MaxBlock, least |-> 0, most |-> MaxRaw, total |-> MaxTotal,
     errs |-> MaxStreamErrs, values |-> {}]

\* every session delivers step * ScenarioChunk raw samples in one block, so
\* that every chunk has ScenarioChunk samples; no stream error
ScenarioSource ==
    [blocks |-> {step * ScenarioChunk}, least |-> step * ScenarioChunk,
     most |-> step * ScenarioChunk, total |-> ScenarioAppends * ScenarioChunk,
     errs |-> 0, values |-> {}]

\* f32 samples around the points where the conversion to i16 rounds and
\* saturates: -1.07, -1 - 1/65536, -1, -1.5/32768, -0.5/32768, 0, 0.5/32768,
\* 1.5/32768, 1 - 1/65536, 1, 1.07
SampleValues ==
    { -70000, -65537, -65536, -3, -1, 0, 1, 3, 65535, 65536, 70000 }

\* a source that delivers samples of any of these values, in one session
ConvertSource ==
    [blocks |-> 1..MaxBlock, least |-> 0, most |-> MaxConvertRaw, total |-> 1,
     errs |-> MaxStreamErrs, values |-> SampleValues]

\* the mixed source with few samples, for the runs under fairness
LiveSource ==
    [blocks |-> 1..MaxBlock, least |-> 0, most |-> MaxRaw,
     total |-> MaxLiveTotal, errs |-> MaxStreamErrs, values |-> {}]

\* the blocks of b samples that the source S can deliver at position pos of a
\* session: numbered samples, or samples of any of its values
Blocks(S, pos, b, done) ==
    IF S.values = {} THEN {DeviceBlock(pos, b, done)} ELSE [1..b -> S.values]

VARIABLES
    audio_ring_buffer,  \* main.rs:53  the shared Vec<i16>
    lock,               \* holder of the buffer's Mutex: "free", "capture", "main"
    poisoned,           \* the Mutex is poisoned (a holder panicked)
    pcCapture,          \* position of the capture thread
    stream,             \* main.rs:169 the cpal stream: "none", "built", "playing"
    writer,             \* main.rs:167 accumulator of the session
    raw,                \* sample source: f32 samples delivered to `writer`
    data,               \* main.rs:57  the chunk returned by record_audio
    max_len,            \* main.rs:59
    data_len,           \* main.rs:60
    len,                \* main.rs:61
    pcMain,             \* position of the main thread
    channel_count,      \* main.rs:51
    data73,             \* main.rs:73  the snapshot (`data` of the main thread)
    pcm_data,           \* main.rs:74
    text,               \* main.rs:80
    stdout,             \* texts printed by main.rs:87
    stderr,             \* messages printed by eprintln! and by panics
    exited,             \* the process has terminated
    status,             \* its exit status
    source,             \* sample source: its behaviour (fixed)
    delivered,          \* sample source: numbered samples delivered so far
    streamErrs,         \* sample source: stream errors reported so far
    engineCalls,        \* transcription engine: calls made so far
    appended            \* history: concatenation of all chunks appended

vars == << audio_ring_buffer, lock, poisoned, pcCapture, stream, writer, raw, data,
           max_len, data_len, len, pcMain, channel_count, data73, pcm_data,
           text, stdout, stderr, exited, status, source, delivered, streamErrs,
           engineCalls, appended >>

captureVars ==
    << pcCapture, stream, writer, raw, data, max_len, data_len, len >>
mainVars == << pcMain, data73, pcm_data, text, stdout >>
sourceVars == << source, delivered, streamErrs >>
exitVars == << exited, status >>

\* the text the engine returns on its n-th call
TextOf(n) == n

\* the state after main.rs:33-54, with a sample source S and an input
\* configuration of one of the numbers of channels C
InitSource(S, C) ==
    /\ audio_ring_buffer = << >>
    /\ lock = "free"
    /\ poisoned = FALSE
    /\ pcCapture = "build169"
    /\ stream = "none"
    /\ writer = << >>
    /\ raw = << >>
    /\ data = << >>
    /\ max_len = 0
    /\ data_len = 0
    /\ len = 0
    /\ pcMain = "sleep72"
    /\ channel_count \in C
    /\ data73 = << >>
    /\ pcm_data = << >>
    /\ text = 0
    /\ stdout = << >>
    /\ stderr = << >>
    /\ exited = FALSE
    /\ status = 0
    /\ source = S
    /\ delivered = 0
    /\ streamErrs = 0
    /\ engineCalls = 0
    /\ appended = << >>

Init == InitSource(MixedSource, 1..MaxChannels)

\* the same program, the sample source being either that one or the mono
\* source of the scenario of equal chunks
InitScenario == Init \/ InitSource(ScenarioSource, {1})

\* the same program with the source of samples of any value
InitConvert == InitSource(ConvertSource, 1..MaxChannels)

\* the same program with the source of few samples
InitLive == InitSource(LiveSource, 1..MaxChannels)

(***************************************************************************)
(* record_audio (main.rs:162-191), called by the capture thread at line 57 *)
(***************************************************************************)
\* main.rs:167-182  build_input_stream succeeds
BuildOk ==
    /\ ~exited /\ pcCapture = "build169"
    /\ writer' = << >>
    /\ raw' = << >>
    /\ stream' = "built"
    /\ pcCapture' = "play183"
    /\ UNCHANGED << audio_ring_buffer, lock, poisoned, data, max_len, data_len,
                    len, mainVars, channel_count, stderr, exitVars, sourceVars,
                    engineCalls, appended >>

\* BuildErr ending the whole process instead of the thread
BuildErr_exit ==
    /\ ~exited /\ pcCapture = "build169"
    /\ writer' = << >>
    /\ raw' = << >>
    /\ stream' = "none"
    /\ pcCapture' = "panicked"
    /\ stderr' = Append(stderr, "panic")
    /\ exited' = TRUE
    /\ status' = 101
    /\ UNCHANGED << audio_ring_buffer, lock, poisoned, data, max_len, data_len,
                    len, mainVars, channel_count, sourceVars, engineCalls,
                    appended >>

\* main.rs:182 `?` returns the error, main.rs:57 unwrap() panics: the thread ends
BuildErr ==
    /\ ~exited /\ pcCapture = "build169"
    /\ writer' = << >>
    /\ raw' = << >>
    /\ stream' = "none"
    /\ pcCapture' = "panicked"
    /\ stderr' = Append(stderr, "panic")
    /\ UNCHANGED << audio_ring_buffer, lock, poisoned, data, max_len, data_len,
                    len, mainVars, channel_count, exitVars, sourceVars,
                    engineCalls, appended >>

\* main.rs:183  stream.play() succeeds
PlayOk ==
    /\ ~exited /\ pcCapture = "play183"
    /\ stream' = "playing"
    /\ pcCapture' = "sleep184"
    /\ UNCHANGED << audio_ring_buffer, lock, poisoned, writer, raw, data, max_len,
                    data_len, len, mainVars, channel_count, stderr, exitVars,
                    sourceVars, engineCalls, appended >>

\* PlayErr leaving the stream open
PlayErr_leak ==
    /\ ~exited /\ pcCapture = "play183"
    /\ stream' = stream
    /\ pcCapture' = "panicked"
    /\ stderr' = Append(stderr, "panic")
    /\ UNCHANGED << audio_ring_buffer, lock, poisoned, writer, raw, data, max_len,
                    data_len, len, mainVars, channel_count, exitVars,
                    sourceVars, engineCalls, appended >>

\* main.rs:183 `?` returns the error: `stream` goes out of scope and is dropped;
\* main.rs:57 unwrap() panics: the thread ends
PlayErr ==
    /\ ~exited /\ pcCapture = "play183"
    /\ stream' = "none"
    /\ pcCapture' = "panicked"
    /\ stderr' = Append(stderr, "panic")
    /\ UNCHANGED << audio_ring_buffer, lock, poisoned, writer, raw, data, max_len,
                    data_len, len, mainVars, channel_count, exitVars,
                    sourceVars, engineCalls, appended >>

\* main.rs:171-177  the data callback, run by the device while a stream exists
\* (a stream may start delivering when it is built, before play() is called)
DataCallback ==
    /\ ~exited /\ stream # "none"
    /\ \E b \in source.blocks :
         LET pos == Len(writer)
             k   == Kept(pos, pos + b - 1)
         IN  /\ pos + b <= source.most
             /\ delivered + k <= source.total
             /\ \E block \in Blocks(source, pos, b, delivered) :
                  /\ writer' = writer \o processed(block)
                  /\ raw' = raw \o block
             /\ delivered' = delivered + k
    /\ UNCHANGED << audio_ring_buffer, lock, poisoned, pcCapture, stream, data,
                    max_len, data_len, len, mainVars, channel_count, stderr,
                    exitVars, source, streamErrs, engineCalls, appended >>

\* ErrorCallback ending the session and the capture thread
ErrorCallback_fatal ==
    /\ ~exited /\ stream # "none"
    /\ streamErrs < source.errs
    /\ streamErrs' = streamErrs + 1
    /\ stderr' = Append(stderr, "stream")
    /\ stream' = "none"
    /\ pcCapture' = "panicked"
    /\ UNCHANGED << audio_ring_buffer, lock, poisoned, writer, raw, data, max_len,
                    data_len, len, mainVars, channel_count, exitVars, source,
                    delivered, engineCalls, appended >>

\* main.rs:178-180  the error callback: eprintln! and nothing else
ErrorCallback ==
    /\ ~exited /\ stream # "none"
    /\ streamErrs < source.errs
    /\ streamErrs' = streamErrs + 1
    /\ stderr' = Append(stderr, "stream")
    /\ UNCHANGED << audio_ring_buffer, lock, poisoned, captureVars, mainVars,
                    channel_count, exitVars, source, delivered, engineCalls,
                    appended >>

\* main.rs:184-185  the sleep ends, drop(stream)
DropStream ==
    /\ ~exited /\ pcCapture = "sleep184"
    /\ Len(writer) >= source.least
    /\ stream' = "none"
    /\ pcCapture' = "ret186"
    /\ UNCHANGED << audio_ring_buffer, lock, poisoned, writer, raw, data, max_len,
                    data_len, len, mainVars, channel_count, stderr, exitVars,
                    sourceVars, engineCalls, appended >>

\* main.rs:186-190  clone the accumulator, decimate, return Ok(data)
Return190 ==
    /\ ~exited /\ pcCapture = "ret186"
    /\ data' = StepBy(writer, step)
    /\ pcCapture' = "lock58"
    /\ UNCHANGED << audio_ring_buffer, lock, poisoned, stream, writer, raw, max_len,
                    data_len, len, mainVars, channel_count, stderr, exitVars,
                    sourceVars, engineCalls, appended >>

(***************************************************************************)
(* The capture thread's loop body (main.rs:58-66).  lock().unwrap() waits  *)
(* for the Mutex and panics when it is poisoned.                           *)
(***************************************************************************)
\* lock().unwrap() of the capture thread at pc `from`, continuing at `to`
CaptureLock(from, to) ==
    /\ ~exited /\ pcCapture = from
    /\ lock = "free"
    /\ IF poisoned
       THEN /\ pcCapture' = "panicked"
            /\ stderr' = Append(stderr, "panic")
            /\ lock' = lock
       ELSE /\ pcCapture' = to
            /\ lock' = "capture"
            /\ stderr' = stderr
    /\ UNCHANGED << audio_ring_buffer, poisoned, stream, writer, raw, data, max_len,
                    data_len, len, mainVars, channel_count, exitVars,
                    sourceVars, engineCalls, appended >>

\* main.rs:58  audio_ring_buffer.lock()
Lock58 == CaptureLock("lock58", "extend58")

\* Extend58 with a capacity of 15 chunks for 16
Extend58_fifteen ==
    /\ ~exited /\ pcCapture = "extend58"
    /\ audio_ring_buffer' = audio_ring_buffer \o data
    /\ appended' = appended \o data
    /\ lock' = "free"
    /\ max_len' = Len(data) * 15
    /\ data_len' = Len(data)
    /\ pcCapture' = "lock61"
    /\ UNCHANGED << poisoned, stream, writer, raw, data, len, mainVars,
                    channel_count, stderr, exitVars, sourceVars, engineCalls >>

\* main.rs:58-60  extend_from_slice(&data), guard dropped; max_len, data_len
Extend58 ==
    /\ ~exited /\ pcCapture = "extend58"
    /\ audio_ring_buffer' = audio_ring_buffer \o data
    /\ appended' = appended \o data
    /\ lock' = "free"
    /\ max_len' = Len(data) * Multiplier
    /\ data_len' = Len(data)
    /\ pcCapture' = "lock61"
    /\ UNCHANGED << poisoned, stream, writer, raw, data, len, mainVars,
                    channel_count, stderr, exitVars, sourceVars, engineCalls >>

\* main.rs:61  audio_ring_buffer.lock()
Lock61 == CaptureLock("lock61", "len61")

\* Len61 keeping the guard past the end of the statement
Len61_hold ==
    /\ ~exited /\ pcCapture = "len61"
    /\ len' = Len(audio_ring_buffer)
    /\ lock' = lock
    /\ pcCapture' = "if62"
    /\ UNCHANGED << audio_ring_buffer, poisoned, stream, writer, raw, data, max_len,
                    data_len, mainVars, channel_count, stderr, exitVars,
                    sourceVars, engineCalls, appended >>

\* Len61 reading the length the buffer had before the append
Len61_stale ==
    /\ ~exited /\ pcCapture = "len61"
    /\ len' = Len(audio_ring_buffer) - Len(data)
    /\ lock' = "free"
    /\ pcCapture' = "if62"
    /\ UNCHANGED << audio_ring_buffer, poisoned, stream, writer, raw, data, max_len,
                    data_len, mainVars, channel_count, stderr, exitVars,
                    sourceVars, engineCalls, appended >>

\* main.rs:61  let len = ....len(); guard dropped
Len61 ==
    /\ ~exited /\ pcCapture = "len61"
    /\ len' = Len(audio_ring_buffer)
    /\ lock' = "free"
    /\ pcCapture' = "if62"
    /\ UNCHANGED << audio_ring_buffer, poisoned, stream, writer, raw, data, max_len,
                    data_len, mainVars, channel_count, stderr, exitVars,
                    sourceVars, engineCalls, appended >>

\* If62 with >= for >
If62_ge ==
    /\ ~exited /\ pcCapture = "if62"
    /\ pcCapture' = IF len >= max_len THEN "lock63" ELSE "build169"
    /\ UNCHANGED << audio_ring_buffer, lock, poisoned, stream, writer, raw, data,
                    max_len, data_len, len, mainVars, channel_count, stderr,
                    exitVars, sourceVars, engineCalls, appended >>

\* main.rs:62  if len > max_len
If62 ==
    /\ ~exited /\ pcCapture = "if62"
    /\ pcCapture' = IF len > max_len THEN "lock63" ELSE "build169"
    /\ UNCHANGED << audio_ring_buffer, lock, poisoned, stream, writer, raw, data,
                    max_len, data_len, len, mainVars, channel_count, stderr,
                    exitVars, sourceVars, engineCalls, appended >>

\* main.rs:63  audio_ring_buffer.lock()
Lock63 == CaptureLock("lock63", "trim64")

\* Trim64 keeping the first samples instead of the last ones
Trim64_back ==
    /\ ~exited /\ pcCapture = "trim64"
    /\ lock' = "free"
    /\ IF data_len > Len(audio_ring_buffer)
       THEN /\ poisoned' = TRUE
            /\ pcCapture' = "panicked"
            /\ stderr' = Append(stderr, "panic")
            /\ audio_ring_buffer' = audio_ring_buffer
       ELSE /\ audio_ring_buffer' =
                 SubSeq(audio_ring_buffer, 1, Len(audio_ring_buffer) - data_len)
            /\ pcCapture' = "build169"
            /\ UNCHANGED << poisoned, stderr >>
    /\ UNCHANGED << stream, writer, raw, data, max_len, data_len, len, mainVars,
                    channel_count, exitVars, sourceVars, engineCalls, appended >>

\* main.rs:64-66  *data = data[data_len..].to_vec(); guard dropped.  The slice
\* panics when data_len is past the end: the guard is dropped while panicking,
\* which poisons the Mutex.
Trim64 ==
    /\ ~exited /\ pcCapture = "trim64"
    /\ lock' = "free"
    /\ IF data_len > Len(audio_ring_buffer)
       THEN /\ poisoned' = TRUE
            /\ pcCapture' = "panicked"
            /\ stderr' = Append(stderr, "panic")
            /\ audio_ring_buffer' = audio_ring_buffer
       ELSE /\ audio_ring_buffer' = SliceFrom(audio_ring_buffer, data_len)
            /\ pcCapture' = "build169"
            /\ UNCHANGED << poisoned, stderr >>
    /\ UNCHANGED << stream, writer, raw, data, max_len, data_len, len, mainVars,
                    channel_count, exitVars, sourceVars, engineCalls, appended >>

(***************************************************************************)
(* The transcription loop of the main thread (main.rs:71-88).              *)
(***************************************************************************)
\* main.rs:72  the sleep of 3000 ms ends
Sleep72 ==
    /\ ~exited /\ pcMain = "sleep72"
    /\ engineCalls < MaxTicks
    /\ pcMain' = "lock73"
    /\ UNCHANGED << audio_ring_buffer, lock, poisoned, captureVars,
                    channel_count, data73, pcm_data, text, stdout, stderr,
                    exitVars, sourceVars, engineCalls, appended >>

\* Lock73 not waiting for the Mutex
Lock73_nowait ==
    /\ ~exited /\ pcMain = "lock73"
    /\ IF poisoned
       THEN /\ exited' = TRUE
            /\ status' = 101
            /\ stderr' = Append(stderr, "panic")
            /\ UNCHANGED << lock, pcMain >>
       ELSE /\ lock' = "main"
            /\ pcMain' = "clone73"
            /\ UNCHANGED << exited, status, stderr >>
    /\ UNCHANGED << audio_ring_buffer, poisoned, captureVars, channel_count,
                    data73, pcm_data, text, stdout, sourceVars, engineCalls,
                    appended >>

\* main.rs:73  audio_ring_buffer_2.lock().unwrap(): a poisoned Mutex makes the
\* main thread panic, which ends the process with status 101
Lock73 ==
    /\ ~exited /\ pcMain = "lock73"
    /\ lock = "free"
    /\ IF poisoned
       THEN /\ exited' = TRUE
            /\ status' = 101
            /\ stderr' = Append(stderr, "panic")
            /\ UNCHANGED << lock, pcMain >>
       ELSE /\ lock' = "main"
            /\ pcMain' = "clone73"
            /\ UNCHANGED << exited, status, stderr >>
    /\ UNCHANGED << audio_ring_buffer, poisoned, captureVars, channel_count,
                    data73, pcm_data, text, stdout, sourceVars, engineCalls,
                    appended >>

\* Clone73 taking the samples out of the buffer (as mem::take would)
Clone73_take ==
    /\ ~exited /\ pcMain = "clone73"
    /\ data73' = audio_ring_buffer
    /\ audio_ring_buffer' = << >>
    /\ lock' = "free"
    /\ pcMain' = "reduce74"
    /\ UNCHANGED << poisoned, captureVars, channel_count,
                    pcm_data, text, stdout, stderr, exitVars, sourceVars,
                    engineCalls, appended >>

\* Clone73 keeping the guard after the statement
Clone73_hold ==
    /\ ~exited /\ pcMain = "clone73"
    /\ data73' = audio_ring_buffer
    /\ lock' = lock
    /\ pcMain' = "reduce74"
    /\ UNCHANGED << audio_ring_buffer, poisoned, captureVars, channel_count,
                    pcm_data, text, stdout, stderr, exitVars, sourceVars,
                    engineCalls, appended >>

\* main.rs:73  .clone(); the guard is a temporary, dropped at the end of the
\* statement
Clone73 ==
    /\ ~exited /\ pcMain = "clone73"
    /\ data73' = audio_ring_buffer
    /\ lock' = "free"
    /\ pcMain' = "reduce74"
    /\ UNCHANGED << audio_ring_buffer, poisoned, captureVars, channel_count,
                    pcm_data, text, stdout, stderr, exitVars, sourceVars,
                    engineCalls, appended >>

\* main.rs:74-77  pcm_data
Reduce74 ==
    /\ ~exited /\ pcMain = "reduce74"
    /\ pcm_data' = Reduce(data73, channel_count)
    /\ pcMain' = "call80"
    /\ UNCHANGED << audio_ring_buffer, lock, poisoned, captureVars,
                    channel_count, data73, text, stdout, stderr, exitVars,
                    sourceVars, engineCalls, appended >>

\* main.rs:80-81  waveform_to_text returns Ok((text, tokens))
TranscribeOk ==
    /\ ~exited /\ pcMain = "call80"
    /\ engineCalls' = engineCalls + 1
    /\ text' = TextOf(engineCalls + 1)
    /\ pcMain' = "print87"
    /\ UNCHANGED << audio_ring_buffer, lock, poisoned, captureVars,
                    channel_count, data73, pcm_data, stdout, stderr, exitVars,
                    sourceVars, appended >>

\* TranscribeErr reporting the error and going on with the next tick
TranscribeErr_retry ==
    /\ ~exited /\ pcMain = "call80"
    /\ engineCalls' = engineCalls + 1
    /\ stderr' = Append(stderr, "transcription")
    /\ pcMain' = "sleep72"
    /\ UNCHANGED << audio_ring_buffer, lock, poisoned, captureVars, data73,
                    pcm_data, text, stdout, channel_count, exitVars,
                    sourceVars, appended >>

\* main.rs:82-85  waveform_to_text returns Err(e): eprintln!, process::exit(1)
TranscribeErr ==
    /\ ~exited /\ pcMain = "call80"
    /\ engineCalls' = engineCalls + 1
    /\ stderr' = Append(stderr, "transcription")
    /\ exited' = TRUE
    /\ status' = 1
    /\ UNCHANGED << audio_ring_buffer, lock, poisoned, captureVars, mainVars,
                    channel_count, sourceVars, appended >>

\* Print87 leaving the loop after the first text
Print87_break ==
    /\ ~exited /\ pcMain = "print87"
    /\ stdout' = Append(stdout, text)
    /\ pcMain' = "done"
    /\ UNCHANGED << audio_ring_buffer, lock, poisoned, captureVars,
                    channel_count, data73, pcm_data, text, stderr, exitVars,
                    sourceVars, engineCalls, appended >>

\* main.rs:87  println!("{:?}", text)
Print87 ==
    /\ ~exited /\ pcMain = "print87"
    /\ stdout' = Append(stdout, text)
    /\ pcMain' = "sleep72"
    /\ UNCHANGED << audio_ring_buffer, lock, poisoned, captureVars,
                    channel_count, data73, pcm_data, text, stderr, exitVars,
                    sourceVars, engineCalls, appended >>

CaptureNext ==
    \/ BuildOk \/ BuildErr \/ PlayOk \/ PlayErr
    \/ DataCallback \/ ErrorCallback
    \/ DropStream \/ Return190
    \/ Lock58 \/ Extend58 \/ Lock61 \/ Len61 \/ If62 \/ Lock63 \/ Trim64

MainNext ==
    \/ Sleep72 \/ Lock73 \/ Clone73 \/ Reduce74
    \/ TranscribeOk \/ TranscribeErr \/ Print87

Next == CaptureNext \/ MainNext

Spec == Init /\ [][Next]_vars

SpecScenario == InitScenario /\ [][Next]_vars

SpecConvert == InitConvert /\ [][Next]_vars

(***************************************************************************)
(* The executions in which no session fails to open or start and no        *)
(* transcription fails, under fair scheduling: a thread that can take its  *)
(* next step eventually takes it (the sleeps end, the engine returns), and *)
(* a thread that waits for the Mutex gets it when it is free again and     *)
(* again (fair hand-off).                                                  *)
(***************************************************************************)
CaptureRun ==
    \/ BuildOk \/ PlayOk \/ DropStream \/ Return190
    \/ Extend58 \/ Len61 \/ If62 \/ Trim64

MainRun == Sleep72 \/ Clone73 \/ Reduce74 \/ TranscribeOk \/ Print87

NextLive ==
    \/ CaptureRun \/ Lock58 \/ Lock61 \/ Lock63
    \/ DataCallback \/ ErrorCallback
    \/ MainRun \/ Lock73

Fairness ==
    /\ WF_vars(CaptureRun) /\ WF_vars(MainRun)
    /\ SF_vars(Lock58) /\ SF_vars(Lock61) /\ SF_vars(Lock63) /\ SF_vars(Lock73)

SpecLive == InitLive /\ [][NextLive]_vars /\ Fairness

(***************************************************************************)
(* Properties.                                                             *)
(***************************************************************************)
\* the last k elements of s, and s without its first k elements
LastN(s, k) == SubSeq(s, Len(s) - k + 1, Len(s))
DropFirst(s, k) == SubSeq(s, k + 1, Len(s))
IsSuffix(s, t) == Len(s) <= Len(t) /\ s = LastN(t, Len(s))

\* the capture thread has extended the buffer with `data` and has not yet
\* finished the eviction step of that append
MidAppend == pcCapture \in {"lock61", "len61", "if62", "lock63", "trim64"}

\* the capture thread is between two iterations: the last append and its
\* eviction step are complete (`data` is the chunk of that append)
AppendDone == pcCapture = "build169"

\* the buffer B after the eviction step of an append of a chunk of c samples
Evicted(B, c) == IF Len(B) > 16 * c THEN DropFirst(B, c) ELSE B

\* C1: after the eviction step that follows an append, the buffer holds at
\* most 16 times as many samples as the chunk just appended, whatever the
\* lengths of the chunks appended (0 included).
C1_BoundAfterEviction ==
    AppendDone => Len(audio_ring_buffer) <= 16 * Len(data)

\* C2: a snapshot is never taken of a buffer that was extended and not yet
\* evicted: the copy made by the main thread equals the buffer as the append
\* in progress leaves it once its eviction step is done.
C2_SnapshotOfCompletedAppend ==
    [][(pcMain = "clone73" /\ pcMain' = "reduce74" /\ MidAppend)
          => data73' = Evicted(audio_ring_buffer, Len(data))]_vars

\* C3: the eviction step of an append of c samples replaces the extended
\* buffer B by B[c:] when Len(B) > 16 * c and leaves B unchanged otherwise;
\* nothing else changes the buffer between the extension and the end of the
\* step.
C3_EvictionStep ==
    [][MidAppend =>
          \/ MidAppend' /\ audio_ring_buffer' = audio_ring_buffer
          \/ /\ AppendDone'
             /\ audio_ring_buffer' = Evicted(audio_ring_buffer, Len(data))]_vars

\* C3 witness: an eviction of a chunk of at least one sample has just happened
C3_Witness ==
    /\ AppendDone /\ data_len >= 1 /\ len > max_len
    /\ Len(audio_ring_buffer) = len - data_len

\* C4: after every append and its eviction step the chunk just appended is the
\* tail of the buffer; with chunks of ScenarioChunk (100) samples, after the
\* 17th append and eviction the buffer has at most 16 * 100 samples and its
\* last 100 samples are the 17th chunk.
C4_ChunkAtTail ==
    /\ AppendDone =>
         /\ Len(data) <= Len(audio_ring_buffer)
         /\ LastN(audio_ring_buffer, Len(data)) = data
    /\ (source = ScenarioSource /\ AppendDone
          /\ Len(appended) = 17 * ScenarioChunk) =>
         /\ Len(audio_ring_buffer) <= 16 * ScenarioChunk
         /\ LastN(audio_ring_buffer, ScenarioChunk)
              = SubSeq(appended, 16 * ScenarioChunk + 1, 17 * ScenarioChunk)

\* C4 witness: the 17th chunk of the scenario has been appended and the
\* eviction has removed the first chunk
C4_Witness ==
    /\ source = ScenarioSource /\ AppendDone
    /\ Len(appended) = 17 * ScenarioChunk
    /\ Len(data) = ScenarioChunk
    /\ Len(audio_ring_buffer) = 16 * ScenarioChunk

\* C5: the buffer is always a contiguous suffix of the concatenation of all
\* chunks appended so far, and after each eviction step that suffix has at
\* most 16 * len(last chunk) samples.
C5_RecentSuffix ==
    /\ IsSuffix(audio_ring_buffer, appended)
    /\ AppendDone => Len(audio_ring_buffer) <= Len(data) * 16

\* the part of C5 that the code keeps: the buffer is always a contiguous
\* suffix of the concatenation of all chunks appended so far
BufferIsSuffix == IsSuffix(audio_ring_buffer, appended)

\* the messages of a kind on standard error
Reported(kind) == \E i \in 1..Len(stderr) : stderr[i] = kind

\* C6: when the engine returns an error on tick n, the error is reported and
\* the whole process terminates with a non-zero status: nothing is printed for
\* tick n, the texts printed are those of the ticks 1..n-1 in tick order, and
\* no step of either thread follows the exit (no retry, no later tick).
C6_FatalTranscriptionError ==
    /\ [](Reported("transcription") =>
            /\ exited /\ status # 0
            /\ stderr[Len(stderr)] = "transcription"
            /\ pcMain = "call80"
            /\ stdout = [i \in 1..(engineCalls - 1) |-> TextOf(i)])
    /\ [][~exited]_vars

\* C6 witness: the engine failed on a tick after the first one, while the
\* capture thread was alive
C6_Witness ==
    /\ Reported("transcription") /\ exited /\ status = 1
    /\ engineCalls >= 2 /\ Len(stdout) = engineCalls - 1
    /\ pcCapture # "panicked"

\* C7: when record_audio fails to open or start a session only the capture
\* thread ends: the process is not terminated by it, the buffer never changes
\* again, the lock is neither held nor poisoned, and the main thread goes on
\* snapshotting the stale buffer and calling the engine.
C7_OpenFailureStallsCapture ==
    /\ [](pcCapture = "panicked" =>
            /\ lock # "capture" /\ ~poisoned
            /\ Reported("panic")
            /\ (exited => Reported("transcription"))
            /\ (~exited /\ pcMain = "lock73" => ENABLED Lock73)
            /\ (~exited /\ pcMain = "clone73" => ENABLED Clone73)
            /\ (~exited /\ pcMain = "call80" => ENABLED TranscribeOk))
    /\ [][pcCapture = "panicked" =>
            /\ pcCapture' = "panicked"
            /\ audio_ring_buffer' = audio_ring_buffer
            /\ appended' = appended
            /\ (pcMain = "clone73" /\ pcMain' # pcMain
                  => data73' = audio_ring_buffer)]_vars
    /\ [][pcCapture # "panicked" /\ pcCapture' = "panicked" =>
            UNCHANGED << audio_ring_buffer, lock, poisoned, mainVars,
                         exitVars >>]_vars

\* C7 witness: the capture thread has ended on a failed open after it had
\* appended samples, and the main thread calls the engine on the stale buffer
C7_Witness ==
    /\ pcCapture = "panicked" /\ ~exited
    /\ audio_ring_buffer # << >>
    /\ pcMain = "call80" /\ engineCalls = 1
    /\ pcm_data # << >>

\* C8 as stated: once the source has reported a stream error, the capture
\* thread appends no further chunk.
C8_StreamErrorEndsCapture ==
    [][streamErrs > 0 => ~(pcCapture = "extend58" /\ pcCapture' = "lock61")]_vars

\* C8 as amended: a stream error reported during an open session is only
\* logged: the error callback changes nothing but standard error, so it ends
\* neither thread, closes no session and notifies no one.
C8_StreamErrorOnlyLogged ==
    [][streamErrs' # streamErrs =>
          /\ stderr' = Append(stderr, "stream")
          /\ UNCHANGED << audio_ring_buffer, lock, poisoned, captureVars,
                          mainVars, exitVars >>]_vars

\* C8 witness: the capture thread appends a chunk after a stream error
C8_Witness ==
    /\ streamErrs > 0 /\ Reported("stream")
    /\ pcCapture = "extend58" /\ data # << >>

\* C9: a session is open only inside record_audio, between the build and the
\* drop of the stream: none is open when record_audio has returned (normally
\* or with an error) nor when the next one is built, and no callback adds to
\* the accumulator after the session was closed.
C9_SessionReleased ==
    /\ [](stream # "none" => pcCapture \in {"play183", "sleep184"})
    /\ [][pcCapture \notin {"play183", "sleep184"} =>
            (writer' = writer \/ (pcCapture = "build169" /\ writer' = << >>))]_vars
    /\ [](pcCapture \in {"lock58", "extend58"} =>
            data = [i \in 1..((Len(writer) + 2) \div 3) |-> writer[3 * i - 2]])

\* C9 witness: stream.play() failed after the stream had delivered samples,
\* and the session is closed
C9_Witness ==
    /\ pcCapture = "panicked" /\ writer # << >> /\ stream = "none"

\* C10: the main thread holds the lock only while it copies the buffer (not
\* while sleeping, reducing or calling the engine), the copy is the buffer at
\* that time, and the copy and the window handed to the engine are not changed
\* by what the capture thread does afterwards.
C10_LockOnlyWhileCopying ==
    /\ [](lock = "main" <=> pcMain = "clone73")
    /\ [](pcMain = "call80" =>
            pcm_data = [i \in 1..(Len(data73) \div channel_count) |->
                           [num |-> data73[i], den |-> 32768]])
    /\ [][pcMain = "clone73" /\ pcMain' # pcMain =>
            data73' = audio_ring_buffer /\ lock' = "free"]_vars
    /\ [][(pcMain = "reduce74" \/ pcMain = "call80") => data73' = data73]_vars
    /\ [][pcMain = "call80" /\ ~exited' => pcm_data' = pcm_data]_vars

\* C10 witness: during the engine call the capture thread holds the lock and
\* the buffer has moved on from the snapshot
C10_Witness ==
    /\ pcMain = "call80" /\ lock = "capture" /\ pcCapture = "trim64"
    /\ data73 # << >> /\ data73 # audio_ring_buffer

\* the capture thread is inside one of its three buffer accesses
InSection == pcCapture = "extend58" \/ pcCapture = "len61" \/ pcCapture = "trim64"

\* C11: the two threads are never inside a buffer access at the same time, and
\* every snapshot is the buffer as a whole critical section of the capture
\* thread left it: a suffix of the chunks appended, in which the chunk of the
\* capture thread is entirely present at the tail (when it has been appended)
\* or not present at all (when it is still to be appended).
C11_NoTornSnapshot ==
    /\ [](~(InSection /\ pcMain = "clone73"))
    /\ [](InSection <=> lock = "capture")
    /\ [][pcMain = "clone73" /\ pcMain' # pcMain =>
            /\ ~InSection
            /\ data73' = audio_ring_buffer
            /\ IsSuffix(data73', appended)
            /\ IF pcCapture = "lock58"
               THEN \A i \in 1..Len(data73') : \A j \in 1..Len(data) :
                        data73'[i] # data[j]
               ELSE /\ Len(data) <= Len(data73')
                    /\ LastN(data73', Len(data)) = data]_vars

\* C11 witness: a snapshot taken between two critical sections of an append
\* of a chunk of two samples holds the whole chunk
C11_Witness ==
    /\ pcMain = "reduce74" /\ pcCapture = "lock61"
    /\ Len(data) = 2 /\ data73 = audio_ring_buffer
    /\ LastN(data73, 2) = data

\* the samples of a window, without their normalisation
Samples(w) == [i \in 1..Len(w) |-> w[i].num]

\* C12: the channel reduction takes exactly the first floor(len/channel_count)
\* samples of the snapshot, in order, for every snapshot and channel count:
\* all of them for one channel, and <<1, 2, 3>> of <<1, 2, 3, 4, 5, 6>> for two
\* channels (no averaging, no de-interleaving).
C12_ChannelReduction ==
    pcMain = "call80" =>
        /\ Len(pcm_data) = Len(data73) \div channel_count
        /\ Samples(pcm_data) = SubSeq(data73, 1, Len(data73) \div channel_count)
        /\ (channel_count = 1 => Samples(pcm_data) = data73)
        /\ (channel_count = 2 /\ data73 = << 1, 2, 3, 4, 5, 6 >>
              => Samples(pcm_data) = << 1, 2, 3 >>)

\* C12 witness: the snapshot <<1, 2, 3, 4, 5, 6>> reduced for two channels
C12_Witness ==
    /\ pcMain = "call80" /\ channel_count = 2
    /\ data73 = << 1, 2, 3, 4, 5, 6 >>
    /\ Len(pcm_data) = 3

\* record_audio has returned its chunk, which is not yet appended
Returned == pcCapture = "lock58" \/ pcCapture = "extend58"

\* C13: the chunk returned by record_audio holds the samples at the indices
\* 0, 3, 6, ... of the whole sequence accumulated over the callbacks of the
\* session, in arrival order (ceil(n/3) samples of n): the stride runs across
\* the blocks, so the chunk is exactly the numbered samples of the session.
C13_Decimation ==
    Returned =>
        /\ Len(writer) = Len(raw)
        /\ Len(data) = (Len(writer) + 2) \div 3
        /\ \A i \in 1..Len(data) : data[i] = writer[3 * (i - 1) + 1]
        /\ \A i \in 1..Len(data) : data[i] = delivered - Len(data) + i

\* C13 witness: four raw samples, delivered in blocks of at most two, give the
\* chunk of the samples 0 and 3
C13_Witness ==
    /\ pcCapture = "lock58" /\ Len(raw) = 4 /\ Len(data) = 2
    /\ data = << writer[1], writer[4] >>

\* h / 2 rounded to the nearest integer, halves away from zero, and h / 2
\* truncated toward zero
RoundHalf(h) == IF h >= 0 THEN (h + 1) \div 2 ELSE 0 - ((1 - h) \div 2)
TruncHalf(h) == IF h >= 0 THEN h \div 2 ELSE 0 - ((0 - h) \div 2)
Clamp16(t) == IF t > 32767 THEN 32767 ELSE IF t < -32768 THEN -32768 ELSE t

\* C14 as stated: every f32 sample v is converted to round(v * 32768) clamped
\* to the range of i16.
C14_RoundedConversion ==
    /\ Len(writer) = Len(raw)
    /\ \A i \in 1..Len(writer) : writer[i] = Clamp16(RoundHalf(raw[i]))

\* C14 as amended: every f32 sample v is converted to v * 32768 truncated
\* toward zero and clamped to the range of i16 (1.0 gives 32767).
C14_TruncatedConversion ==
    /\ Len(writer) = Len(raw)
    /\ \A i \in 1..Len(writer) :
         /\ writer[i] = Clamp16(TruncHalf(raw[i]))
         /\ (raw[i] = 65536 => writer[i] = 32767)

\* C14 witness: -1.5/32768 and 1.0 have been converted, to -1 and 32767
C14_Witness ==
    /\ raw = << -3, 65536 >> /\ writer = << -1, 32767 >>

\* C15: when no session fails to open and no transcription fails, under fair
\* scheduling and fair hand-off of the lock, neither thread ever terminates or
\* stays blocked: the capture thread appends a chunk again and again, and the
\* main thread performs every tick (up to the MaxTicks of the model).
C15_LoopsNeverEnd ==
    /\ [](pcCapture # "panicked" /\ ~exited)
    /\ []<>(pcCapture = "extend58")
    /\ []<>(pcCapture = "build169")
    /\ \A n \in 0..(MaxTicks - 1) : (engineCalls = n) ~> (Len(stdout) = n + 1)

\* C15 witness: the main thread has performed all its ticks and the capture
\* thread is appending one more chunk
C15_Witness ==
    /\ Len(stdout) = MaxTicks /\ pcMain = "sleep72"
    /\ pcCapture = "extend58" /\ appended # << >>

\* the capture thread has read the length and has not yet finished the
\* eviction step
Decided == pcCapture = "if62" \/ pcCapture = "lock63" \/ pcCapture = "trim64"

\* C16: the buffer has one writer: only the capture thread's extend and trim
\* change it, no step of the main thread (the snapshot included) does; so
\* between the extend and the trim of one iteration the buffer does not change,
\* and the length read for the eviction decision is the buffer's length until
\* the trim is applied.
C16_SingleWriter ==
    /\ [][audio_ring_buffer' # audio_ring_buffer =>
            /\ pcCapture = "extend58" \/ pcCapture = "trim64"
            /\ pcCapture' # pcCapture /\ pcMain' = pcMain]_vars
    /\ [][pcMain' # pcMain => audio_ring_buffer' = audio_ring_buffer]_vars
    /\ [][MidAppend /\ MidAppend' => audio_ring_buffer' = audio_ring_buffer]_vars
    /\ [](Decided => len = Len(audio_ring_buffer))
    /\ [](MidAppend => IsSuffix(data, audio_ring_buffer))

\* C16 witness: a snapshot was taken between the length read and the trim of
\* an iteration that appended samples, and the trim is about to be applied to
\* a buffer of the length read
C16_Witness ==
    /\ pcCapture = "trim64" /\ pcMain = "reduce74"
    /\ Len(data) >= 1 /\ data73 = audio_ring_buffer
    /\ len = Len(audio_ring_buffer) /\ len > max_len

\* the capture thread is waiting for the lock
CaptureWaits ==
    pcCapture = "lock58" \/ pcCapture = "lock61" \/ pcCapture = "lock63"

\* C17: no deadlock on the lock: a thread that is about to acquire the lock
\* does not hold it, the lock is held only at the three buffer accesses of the
\* capture thread and at the clone of the main thread (never across a sleep, a
\* capture session or a transcription), the holder's next step is enabled and
\* releases the lock, and so whenever a thread waits the lock is free or the
\* other thread is one step from releasing it.
C17_NoDeadlock ==
    /\ CaptureWaits => lock # "capture"
    /\ pcMain = "lock73" => lock # "main"
    /\ lock = "capture" <=> InSection
    /\ lock = "main" <=> pcMain = "clone73"
    /\ (lock = "capture" /\ ~exited) => ENABLED (CaptureRun /\ lock' = "free")
    /\ (lock = "main" /\ ~exited) => ENABLED (MainRun /\ lock' = "free")
    /\ (CaptureWaits /\ ~exited) => (ENABLED CaptureNext \/ lock = "main")
    /\ (pcMain = "lock73" /\ ~exited /\ ~poisoned) =>
          (ENABLED MainNext \/ lock = "capture")

\* C17 witness: the main thread waits for the lock while the capture thread
\* holds it to read the length
C17_Witness ==
    pcMain = "lock73" /\ lock = "capture" /\ pcCapture = "len61" /\ Len(data) >= 1

\* C18: the trim never slices past the end of the buffer: when the capture
\* thread applies the trim, the length of the chunk just appended is at most
\* the buffer's length (the chunk is still the buffer's tail); so the capture
\* thread never panics holding the lock, the Mutex is never poisoned, and the
\* lock().unwrap() of the main thread always succeeds.
C18_TrimInBounds ==
    /\ [](pcCapture = "trim64" =>
            /\ data_len = Len(data)
            /\ data_len <= Len(audio_ring_buffer)
            /\ LastN(audio_ring_buffer, data_len) = data)
    /\ [](~poisoned /\ status # 101)
    /\ [][pcCapture = "trim64" /\ pcCapture' # pcCapture =>
            /\ pcCapture' = "build169"
            /\ Len(audio_ring_buffer') = len - data_len]_vars
    /\ [][pcMain = "lock73" /\ pcMain' # pcMain =>
            pcMain' = "clone73" /\ lock' = "main"]_vars

\* C18 witness: a trim of a chunk of at least one sample has been applied
\* after a snapshot was taken between the extend and the trim, and the main
\* thread acquires the lock again
C18_Witness ==
    /\ pcCapture = "build169" /\ data_len >= 1 /\ len > max_len
    /\ Len(audio_ring_buffer) = len - data_len
    /\ pcMain = "clone73" /\ Len(data73) = len /\ engineCalls = 1

\* the k most recent chunks of the scenario are the last k * ScenarioChunk of
\* the numbered samples appended
MinOf(a, b) == IF a < b THEN a ELSE b

\* C19: with chunks of a constant length c > 0 (c = ScenarioChunk), after the
\* k-th append and eviction the buffer holds min(k, 16) * c samples: it grows
\* by c per append up to the 16th and then stays at 16 * c, holding the 16
\* most recent chunks in append order.
C19_ConstantChunkLength ==
    source = ScenarioSource =>
        LET c == ScenarioChunk
            k == Len(appended) \div c
            m == MinOf(k, 16)
        IN  /\ Len(appended) = k * c
            /\ ~MidAppend =>
                 /\ Len(audio_ring_buffer) = m * c
                 /\ audio_ring_buffer = LastN(appended, m * c)
                 /\ \A i \in 1..m :
                      SubSeq(audio_ring_buffer, (i - 1) * c + 1, i * c)
                        = SubSeq(appended, (k - m + i - 1) * c + 1, (k - m + i) * c)
            /\ MidAppend =>
                 /\ Len(audio_ring_buffer) = MinOf(k - 1, 16) * c + c
                 /\ audio_ring_buffer = LastN(appended, MinOf(k - 1, 16) * c + c)

\* C19 witness: the 17th chunk of the scenario has been appended and evicted:
\* the buffer starts at the first sample of the 2nd chunk
C19_Witness ==
    /\ source = ScenarioSource /\ pcCapture = "build169"
    /\ Len(appended) = 17 * ScenarioChunk
    /\ audio_ring_buffer[1] = appended[ScenarioChunk + 1]
    /\ Len(audio_ring_buffer) = 16 * ScenarioChunk

====
